---- MODULE Spec2Model ----
(***************************************************************************)
(* Model of main.py: GoogleSheetConnectorClass (__init__,                  *)
(* build_connection, get_sheet_data) and sheet_data_to_df.                 *)
(*                                                                         *)
(* The Google client library and the remote service are the environment:   *)
(* credential loading, build(), request construction and execute() either  *)
(* succeed or raise, chosen nondeterministically.  Everything main.py      *)
(* itself does (the try/except blocks, the emptiness test, the dict        *)
(* comprehension) is computed as the code computes it.                     *)
(*                                                                         *)
(* Python lists are sequences (1-based here, 0-based in the source), a     *)
(* dict is a function from its keys, an exception is a record of its type  *)
(* and the tokens of str(e).                                               *)
(***************************************************************************)
EXTENDS Integers, Sequences, FiniteSets, TLC

VARIABLES
    pc,         \* position of the running top-level call, "idle" when none runs
    op,         \* the top-level operation running, or the last one that ran
    descriptor, \* the `credentials` argument of the last constructor call
    creds,      \* self.creds of the caller's client object
    gs,         \* self.creds of the client local to sheet_data_to_df
    opened,     \* number of connection handles build() has produced so far
    prior,      \* value of opened when the current get_sheet_data was entered
    gsdBase,    \* length of events when the current get_sheet_data was entered
    connection, \* local `connection` of get_sheet_data (a handle number)
    response,   \* what execute() returned to the current get_sheet_data
    events,     \* external events of the running top-level call, in order
    gsdResult,  \* how the last get_sheet_data ended (return value or exception)
    outcome     \* how the last top-level operation ended

vars == <<pc, op, descriptor, creds, gs, opened, prior, gsdBase, connection,
          response, events, gsdResult, outcome>>

----------------------------------------------------------------------------
(* Bounds of the model *)

MaxCols == 3
MaxRows == 2
MaxHandles == 4

(* Header labels the service may return. *)
Labels == {"A", "B"}

----------------------------------------------------------------------------
(* Exceptions and results *)

Prefix == "An error has occured: "
EmptyText == "The spreadsheet/sheet range is empty."

Exc(type, args) == [type |-> type, args |-> args]

(* str(e): a KeyError prints the repr of its key, every other exception    *)
(* its message.                                                            *)
Str(e) ==
    IF e.type = "KeyError"
    THEN <<"'">> \o e.args \o <<"'">>
    ELSE e.args

(* raise Exception(f"An error has occured: {e}") *)
Wrapped(e) == Exc("Exception", <<Prefix>> \o Str(e))

Return(v) == [kind |-> "return", value |-> v]
Raise(e) == [kind |-> "raise", exc |-> e]
NoResult == [kind |-> "none"]

----------------------------------------------------------------------------
(* The environment: credentials, the service's answers *)

Scopes == {"https://www.googleapis.com/auth/spreadsheets"}
RequiredFields == {"client_email", "private_key", "token_uri"}
ReadableKeyFiles == {"key.json"}

(* The `credentials` argument: a path, or a dict with some of the fields.  *)
Descriptors ==
    {[form |-> "str", path |-> p] : p \in {"key.json", "missing.json"}}
    \cup {[form |-> "dict", fields |-> F] :
            F \in {RequiredFields, RequiredFields \ {"private_key"}}}

NoDescriptor == [form |-> "none"]
NoCreds == [account |-> "none", scopes |-> {}]

FromServiceAccountFile(path) ==
    IF path \in ReadableKeyFiles
    THEN Return([account |-> path, scopes |-> Scopes])
    ELSE Raise(Exc("FileNotFoundError",
                   <<"No such file or directory: ", path>>))

FromServiceAccountInfo(info) ==
    IF RequiredFields \subseteq info.fields
    THEN Return([account |-> "inline", scopes |-> Scopes])
    ELSE Raise(Exc("ValueError", <<"missing fields">>))

(* What build() may do when asked for handle h: produce it, or raise.      *)
BuildErrors == {Exc("ServerNotFoundError", <<"Unable to find the server">>)}
BuildOutcomes(h) == {Return(h)} \cup {Raise(e) : e \in BuildErrors}

(* What building the request object may raise (the library validates the   *)
(* parameters before any request is sent).                                 *)
RequestErrors == {Exc("TypeError", <<"Missing required parameter">>)}

(* What execute() may raise. *)
ExecuteErrors == {Exc("HttpError", <<"HttpError 403">>)}

(* Raw value grids.  The code never inspects a cell, so cell (r, c) of the *)
(* data rows is the tag <<r, c>>: any mis-indexing shows.  Rows may be     *)
(* shorter or longer than the header.                                      *)
Headers == UNION {[1..n -> Labels] : n \in 0..MaxCols}
RowShapes == UNION {[1..n -> 0..(MaxCols + 1)] : n \in 0..MaxRows}
Grid(header, shape) ==
    <<header>> \o [r \in 1..Len(shape) |-> [c \in 1..shape[r] |-> <<r, c>>]]
Grids == {<<>>} \cup {Grid(h, s) : h \in Headers, s \in RowShapes}

(* The dict execute() returns: with a "values" entry, or (as the service   *)
(* answers for a range with no data) without one.                          *)
SheetRange == "Sheet1!A1:C3"
Responses ==
    {[range |-> SheetRange, values |-> g] : g \in Grids}
    \cup {[range |-> SheetRange]}
NoResponse == [none |-> TRUE]

----------------------------------------------------------------------------
(* main.py, the pure parts *)

(* __init__ with a failing loader wrapped like the fetch path *)
ConstructorWrapping(credentials) ==
    LET r == IF credentials.form = "str"
             THEN FromServiceAccountFile(credentials.path)
             ELSE FromServiceAccountInfo(credentials)
    IN  IF r.kind = "raise" THEN Raise(Wrapped(r.exc)) ELSE r

(* __init__: no try, the loader's exception leaves as it is *)
Constructor(credentials) ==
    IF credentials.form = "str"
    THEN FromServiceAccountFile(credentials.path)
    ELSE FromServiceAccountInfo(credentials)

(* except Exception as e: raise Exception(f"An error has occured: {e}") *)
Except(r) == IF r.kind = "raise" THEN Raise(Wrapped(r.exc)) ELSE r

(* build_connection: build() inside try/except *)
build_connection(b) == Except(b)

(* `not results` with the header row counted as no data *)
NotCountingHeader(results) == Len(results) <= 1

(* `not results` for a list *)
Not(results) == Len(results) = 0

(* results[0:] *)
DataRowsFromHeader(results) == results

(* results[1:] *)
DataRows(results) == SubSeq(results, 2, Len(results))

(* the list comprehension with a missing cell padded *)
ListCompPadding(rows, i) ==
    Return([r \in 1..Len(rows) |->
              IF i <= Len(rows[r]) THEN rows[r][i] ELSE <<0, 0>>])

(* the list comprehension with a short row skipped *)
ListCompSkipping(rows, i) ==
    LET long == SelectSeq(rows, LAMBDA row : i <= Len(row))
    IN  Return([r \in 1..Len(long) |-> long[r][i]])

(* [row[i] for row in rows]: row[i] raises IndexError on a short row *)
ListComp(rows, i) ==
    IF \E r \in 1..Len(rows) : Len(rows[r]) < i
    THEN Raise(Exc("IndexError", <<"list index out of range">>))
    ELSE Return([r \in 1..Len(rows) |-> rows[r][i]])

EmptyDict == [k \in {} |-> <<>>]

(* a dict that keeps the first value stored under a key *)
DictSetDefault(d, k, v) ==
    [x \in DOMAIN d \cup {k} |-> IF x \in DOMAIN d THEN d[x] ELSE v]

(* d[k] = v *)
DictSet(d, k, v) ==
    [x \in DOMAIN d \cup {k} |-> IF x = k THEN v ELSE d[x]]

(* {column_names[i]: [row[i] for row in rows] for i in range(len(...))},   *)
(* evaluated position by position from i on, acc being the dict so far     *)
RECURSIVE DictComp(_, _, _, _)
DictComp(column_names, rows, i, acc) ==
    IF i > Len(column_names)
    THEN Return(acc)
    ELSE LET col == ListComp(rows, i)
         IN  IF col.kind = "raise"
             THEN col
             ELSE DictComp(column_names, rows, i + 1,
                           DictSet(acc, column_names[i], col.value))

(* The body of the try block after execute() has returned `executed` *)
TryBody(executed) ==
    IF "values" \notin DOMAIN executed
    THEN Raise(Exc("KeyError", <<"values">>))
    ELSE LET results == executed.values
         IN  IF Not(results)
             THEN Raise(Exc("Exception", <<EmptyText>>))
             ELSE DictComp(results[1], DataRows(results), 1, EmptyDict)

(* pd.DataFrame(data=raw) for a dict of lists *)
DataFrame(raw) ==
    LET lens == {Len(raw[k]) : k \in DOMAIN raw}
    IN  IF Cardinality(lens) > 1
        THEN Raise(Exc("ValueError",
                       <<"All arrays must be of the same length">>))
        ELSE LET n == IF lens = {} THEN 0 ELSE CHOOSE x \in lens : TRUE
             IN  Return([columns |-> DOMAIN raw,
                         rows |-> [i \in 1..n |->
                                     [k \in DOMAIN raw |-> raw[k][i]]]])

----------------------------------------------------------------------------
(* The state machine *)

Init ==
    /\ pc = "idle"
    /\ op = "none"
    /\ descriptor = NoDescriptor
    /\ creds = NoCreds
    /\ gs = NoCreds
    /\ opened = 0
    /\ prior = 0
    /\ gsdBase = 0
    /\ connection = 0
    /\ response = NoResponse
    /\ events = <<>>
    /\ gsdResult = NoResult
    /\ outcome = NoResult

(* The caller constructs its client: GoogleSheetConnectorClass(credentials) *)
New ==
    /\ pc = "idle"
    /\ \E d \in Descriptors :
         LET r == Constructor(d)
         IN  /\ descriptor' = d
             /\ creds' = IF r.kind = "return" THEN r.value ELSE creds
             /\ outcome' = r
    /\ op' = "init"
    /\ events' = <<<<"creds", 0>>>>
    /\ gsdResult' = NoResult
    /\ response' = NoResponse
    /\ UNCHANGED <<pc, gs, opened, prior, gsdBase, connection>>

(* The caller calls build_connection() on its client *)
BuildConnection ==
    /\ pc = "idle"
    /\ creds # NoCreds
    /\ opened < MaxHandles
    /\ \E b \in BuildOutcomes(opened + 1) :
         LET r == build_connection(b)
         IN  /\ outcome' = r
             /\ opened' = IF r.kind = "return" THEN opened + 1 ELSE opened
             /\ events' = IF r.kind = "return"
                          THEN <<<<"open", r.value>>>>
                          ELSE <<<<"open_failed", 0>>>>
    /\ op' = "build_connection"
    /\ gsdResult' = NoResult
    /\ response' = NoResponse
    /\ UNCHANGED <<pc, descriptor, creds, gs, prior, gsdBase, connection>>

(* get_sheet_data goes on to its next statement *)
Goto(label) ==
    /\ pc' = label
    /\ UNCHANGED <<gs, gsdResult, outcome>>

(* get_sheet_data ends with r: back to the caller, or, returning inside    *)
(* sheet_data_to_df, on to the conversion.  sheet_data_to_df has no try:   *)
(* an exception ends it too, and its local client goes with it.            *)
Leave(r) ==
    /\ gsdResult' = r
    /\ IF op = "sheet_data_to_df" /\ r.kind = "return"
       THEN /\ pc' = "df_convert"
            /\ UNCHANGED <<gs, outcome>>
       ELSE /\ pc' = "idle"
            /\ gs' = NoCreds
            /\ outcome' = r

(* The caller calls get_sheet_data on its client *)
GsdStart ==
    /\ pc = "idle"
    /\ creds # NoCreds
    /\ opened < MaxHandles
    /\ pc' = "gsd_build"
    /\ op' = "get_sheet_data"
    /\ prior' = opened
    /\ gsdBase' = 0
    /\ connection' = 0
    /\ response' = NoResponse
    /\ events' = <<>>
    /\ gsdResult' = NoResult
    /\ outcome' = NoResult
    /\ UNCHANGED <<descriptor, creds, gs, opened>>

(* connection = self.build_connection() with the last handle kept and      *)
(* used again                                                              *)
GsdBuildReusing ==
    /\ pc = "gsd_build"
    /\ IF opened > 0
       THEN /\ connection' = opened
            /\ Goto("gsd_request")
            /\ UNCHANGED <<opened, events>>
       ELSE \E b \in BuildOutcomes(opened + 1) :
              LET r == build_connection(b)
              IN  IF r.kind = "return"
                  THEN /\ connection' = r.value
                       /\ opened' = opened + 1
                       /\ events' = Append(events, <<"open", r.value>>)
                       /\ Goto("gsd_request")
                  ELSE /\ events' = Append(events, <<"open_failed", 0>>)
                       /\ Leave(r)
                       /\ UNCHANGED <<connection, opened>>
    /\ UNCHANGED <<op, descriptor, creds, prior, gsdBase, response>>

(* connection = self.build_connection(): outside the try, already wrapped *)
GsdBuild ==
    /\ pc = "gsd_build"
    /\ \E b \in BuildOutcomes(opened + 1) :
         LET r == build_connection(b)
         IN  IF r.kind = "return"
             THEN /\ connection' = r.value
                  /\ opened' = opened + 1
                  /\ events' = Append(events, <<"open", r.value>>)
                  /\ Goto("gsd_request")
             ELSE /\ events' = Append(events, <<"open_failed", 0>>)
                  /\ Leave(r)
                  /\ UNCHANGED <<connection, opened>>
    /\ UNCHANGED <<op, descriptor, creds, prior, gsdBase, response>>

(* results = connection.spreadsheets().values().get(...): builds the       *)
(* request object, outside the try; nothing is sent yet                    *)
GsdRequest ==
    /\ pc = "gsd_request"
    /\ \/ Goto("gsd_execute")
       \/ \E e \in RequestErrors : Leave(Raise(e))
    /\ UNCHANGED <<op, descriptor, creds, opened, prior, gsdBase,
                   connection, response, events>>

(* results.execute(), inside the try: the one request of the call *)
GsdExecute ==
    /\ pc = "gsd_execute"
    /\ events' = Append(events, <<"request", connection>>)
    /\ \/ /\ response' \in Responses
          /\ Goto("gsd_reshape")
       \/ /\ \E e \in ExecuteErrors : Leave(Except(Raise(e)))
          /\ UNCHANGED response
    /\ UNCHANGED <<op, descriptor, creds, opened, prior, gsdBase, connection>>

(* ["values"], the emptiness test and the reshaping, inside the try *)
GsdReshape ==
    /\ pc = "gsd_reshape"
    /\ Leave(Except(TryBody(response)))
    /\ UNCHANGED <<op, descriptor, creds, opened, prior, gsdBase,
                   connection, response, events>>

(* sheet_data_to_df: gs = GoogleSheetConnectorClass(credentials=...) *)
DfInit ==
    /\ pc = "idle"
    /\ opened + 2 <= MaxHandles
    /\ \E d \in Descriptors :
         LET r == Constructor(d)
         IN  /\ descriptor' = d
             /\ IF r.kind = "return"
                THEN /\ gs' = r.value
                     /\ pc' = "df_build"
                     /\ outcome' = NoResult
                ELSE /\ gs' = NoCreds
                     /\ pc' = "idle"
                     /\ outcome' = r
    /\ op' = "sheet_data_to_df"
    /\ events' = <<<<"creds", 0>>>>
    /\ gsdResult' = NoResult
    /\ response' = NoResponse
    /\ connection' = 0
    /\ UNCHANGED <<creds, opened, prior, gsdBase>>

(* sheet_data_to_df without its own build_connection() call *)
DfBuildSkipped ==
    /\ pc = "df_build"
    /\ pc' = "gsd_build"
    /\ prior' = opened
    /\ gsdBase' = Len(events)
    /\ UNCHANGED <<op, descriptor, creds, gs, opened, connection, response,
                   events, gsdResult, outcome>>

(* gs.build_connection(): the handle is dropped; then get_sheet_data is    *)
(* entered                                                                 *)
DfBuild ==
    /\ pc = "df_build"
    /\ \E b \in BuildOutcomes(opened + 1) :
         LET r == build_connection(b)
         IN  IF r.kind = "return"
             THEN /\ opened' = opened + 1
                  /\ events' = Append(events, <<"open", r.value>>)
                  /\ pc' = "gsd_build"
                  /\ prior' = opened + 1
                  /\ gsdBase' = Len(events) + 1
                  /\ UNCHANGED <<gs, outcome>>
             ELSE /\ events' = Append(events, <<"open_failed", 0>>)
                  /\ pc' = "idle"
                  /\ gs' = NoCreds
                  /\ outcome' = r
                  /\ UNCHANGED <<opened, prior, gsdBase>>
    /\ UNCHANGED <<op, descriptor, creds, connection, response, gsdResult>>

(* df = pd.DataFrame(data=raw); return df *)
DfConvert ==
    /\ pc = "df_convert"
    /\ outcome' = DataFrame(gsdResult.value)
    /\ events' = Append(events, <<"convert", 0>>)
    /\ pc' = "idle"
    /\ gs' = NoCreds
    /\ UNCHANGED <<op, descriptor, creds, opened, prior, gsdBase,
                   connection, response, gsdResult>>

Next ==
    \/ New
    \/ BuildConnection
    \/ GsdStart
    \/ GsdBuild
    \/ GsdRequest
    \/ GsdExecute
    \/ GsdReshape
    \/ DfInit
    \/ DfBuild
    \/ DfConvert

Spec == Init /\ [][Next]_vars

----------------------------------------------------------------------------
(* Vocabulary of the properties *)

(* get_sheet_data has ended in the current run *)
GsdEnded == gsdResult.kind # "none"

(* execute() answered with a "values" entry: the raw grid *)
HasGrid == response # NoResponse /\ "values" \in DOMAIN response
grid == response.values
header == grid[1]
NRows == Len(grid) - 1

HeaderSet == {header[j] : j \in 1..Len(header)}
DistinctLabels ==
    \A i, j \in 1..Len(header) : header[i] = header[j] => i = j
ShortRow == \E r \in 2..Len(grid) : Len(grid[r]) < Len(header)
Rectangular == \A r \in 2..Len(grid) : Len(grid[r]) = Len(header)

(* column j of the data rows, top to bottom *)
ColumnAt(j) == [i \in 1..NRows |-> grid[i + 1][j]]
LastPos(label) ==
    CHOOSE j \in 1..Len(header) :
        /\ header[j] = label
        /\ \A k \in 1..Len(header) : header[k] = label => k <= j

EmptyRangeError == Exc("Exception", <<Prefix, EmptyText>>)
IndexErrorWrapped ==
    Exc("Exception", <<Prefix, "list index out of range">>)

(* the message is the prefix followed by a text that holds no prefix *)
WrappedOnce(e) ==
    /\ e.type = "Exception"
    /\ Len(e.args) >= 2
    /\ e.args[1] = Prefix
    /\ \A i \in 2..Len(e.args) : e.args[i] # Prefix

(* the events of the current get_sheet_data call *)
GsdEvents ==
    SelectSeq(SubSeq(events, gsdBase + 1, Len(events)),
              LAMBDA e : e[1] \in {"open", "open_failed", "request"})
EventKinds == [i \in 1..Len(events) |-> events[i][1]]
IsPrefixOf(s, t) == Len(s) <= Len(t) /\ s = SubSeq(t, 1, Len(s))

LoaderFails(d) ==
    \/ d.form = "str" /\ d.path \notin ReadableKeyFiles
    \/ d.form = "dict" /\ ~(RequiredFields \subseteq d.fields)

----------------------------------------------------------------------------
(* C1: for a grid with M >= 1 pairwise distinct header labels and N >= 1   *)
(* data rows of exactly M cells each, get_sheet_data returns a mapping     *)
(* with exactly M keys, each mapped to a sequence of length N, and         *)
(* mapping[header[j]][i] is the cell of data row i in column j.            *)
C1_WellFormedGridReshaped ==
    (/\ GsdEnded
     /\ HasGrid
     /\ Len(grid) >= 2
     /\ Len(header) >= 1
     /\ DistinctLabels
     /\ Rectangular)
    => /\ gsdResult.kind = "return"
       /\ DOMAIN gsdResult.value = HeaderSet
       /\ Cardinality(DOMAIN gsdResult.value) = Len(header)
       /\ \A j \in 1..Len(header) :
            /\ Len(gsdResult.value[header[j]]) = NRows
            /\ \A i \in 1..NRows :
                 gsdResult.value[header[j]][i] = grid[i + 1][j]

C1_Witness ==
    /\ GsdEnded
    /\ HasGrid
    /\ Len(grid) = 3
    /\ header = <<"B", "A">>
    /\ Rectangular
    /\ gsdResult.kind = "return"

(* C2 as stated: a grid of a header row only makes get_sheet_data fail     *)
(* with the empty-range error, never return a mapping.                     *)
C2_HeaderOnlyFails ==
    (GsdEnded /\ HasGrid /\ Len(grid) = 1 /\ Len(header) >= 1)
    => gsdResult = Raise(EmptyRangeError)

(* C2 amended: a grid of a header row only makes get_sheet_data return the *)
(* mapping of every header label to the empty sequence; the empty-range    *)
(* error is raised for the grid with no rows at all and for no other grid. *)
C2_HeaderOnlyReturnsEmptyColumns ==
    /\ (GsdEnded /\ HasGrid /\ Len(grid) = 1)
       => /\ gsdResult.kind = "return"
          /\ DOMAIN gsdResult.value = HeaderSet
          /\ \A k \in HeaderSet : gsdResult.value[k] = <<>>
    /\ (GsdEnded /\ HasGrid)
       => (gsdResult = Raise(EmptyRangeError) <=> Len(grid) = 0)

C2_Witness ==
    /\ GsdEnded
    /\ HasGrid
    /\ grid = <<<<"A", "B">>>>
    /\ gsdResult.kind = "return"

(* C3: whenever the response holds no rows, its row list being empty or    *)
(* the response having no "values" entry at all, get_sheet_data fails with *)
(* the empty-range error and with no other text.                           *)
C3_NoRowsIsEmptyRangeError ==
    (/\ GsdEnded
     /\ response # NoResponse
     /\ ("values" \notin DOMAIN response \/ Len(response.values) = 0))
    => gsdResult = Raise(EmptyRangeError)

(* C4: every failure of get_sheet_data after the connection is opened      *)
(* (building the request, executing it, the emptiness test, the reshaping) *)
(* reaches the caller as the generic error, wrapped exactly once.          *)
C4_FetchFailuresWrappedOnce ==
    (GsdEnded /\ connection # 0 /\ gsdResult.kind = "raise")
    => WrappedOnce(gsdResult.exc)

(* C5: for every grid with a data row shorter than the header row,         *)
(* get_sheet_data fails with the wrapped index error; no mapping, partial  *)
(* or padded, is returned, and sheet_data_to_df converts nothing.          *)
C5_RaggedGridFails ==
    (GsdEnded /\ HasGrid /\ Len(grid) >= 1 /\ ShortRow)
    => /\ gsdResult = Raise(IndexErrorWrapped)
       /\ pc = "idle"
       /\ outcome = gsdResult

C5_Witness ==
    /\ GsdEnded
    /\ HasGrid
    /\ Len(grid) = 3
    /\ Len(header) = 2
    /\ Len(grid[2]) = 2
    /\ Len(grid[3]) = 1
    /\ gsdResult.kind = "raise"

C7_CredentialErrorUnwrapped ==
    (op \in {"init", "sheet_data_to_df"} /\ LoaderFails(descriptor))
    => /\ pc = "idle"
       /\ outcome.kind = "raise"
       /\ outcome.exc.type =
            (IF descriptor.form = "str"
             THEN "FileNotFoundError" ELSE "ValueError")
       /\ \A i \in 1..Len(outcome.exc.args) : outcome.exc.args[i] # Prefix
       /\ events = <<<<"creds", 0>>>>
       /\ gs = NoCreds

C7_Witness ==
    /\ op = "sheet_data_to_df"
    /\ descriptor.form = "dict"
    /\ LoaderFails(descriptor)
    /\ pc = "idle"
    /\ opened > 0

(* C8: each get_sheet_data call opens exactly one new connection handle    *)
(* (none that an earlier call or build_connection produced), then issues   *)
(* at most one request, on that handle, then returns or fails; a failed    *)
(* open is followed by nothing: no second attempt, no request.             *)
C8_OneFreshHandleOneRequest ==
    (pc \in {"gsd_request", "gsd_execute", "gsd_reshape"} \/ GsdEnded)
    => /\ Len(GsdEvents) \in {1, 2}
       /\ \/ /\ GsdEvents[1] = <<"open", connection>>
             /\ connection > prior
             /\ connection = opened
          \/ /\ GsdEvents = <<<<"open_failed", 0>>>>
             /\ GsdEnded
             /\ gsdResult.kind = "raise"
       /\ Len(GsdEvents) = 2 => GsdEvents[2] = <<"request", connection>>
       /\ pc = "gsd_request" => Len(GsdEvents) = 1
       /\ pc = "gsd_reshape" => Len(GsdEvents) = 2
       /\ gsdResult.kind = "return" => Len(GsdEvents) = 2

C8_Witness ==
    /\ op = "get_sheet_data"
    /\ prior = 2
    /\ gsdResult.kind = "return"
    /\ GsdEvents = <<<<"open", 3>>, <<"request", 3>>>>

(* C9: whenever get_sheet_data returns, for any grid (rows longer than the *)
(* header included), every value sequence of the mapping has the length    *)
(* of the data rows; sheet_data_to_df's conversion never meets unequal     *)
(* lengths.                                                                *)
C9_ReturnedColumnsEqualLength ==
    /\ gsdResult.kind = "return"
       => /\ HasGrid
          /\ \A k \in DOMAIN gsdResult.value :
               Len(gsdResult.value[k]) = NRows
    /\ (op = "sheet_data_to_df" /\ pc = "idle" /\ gsdResult.kind = "return")
       => outcome.kind = "return"

C9_Witness ==
    /\ gsdResult.kind = "return"
    /\ Len(grid) = 3
    /\ Len(header) = 1
    /\ Len(grid[2]) = 2
    /\ Len(grid[3]) = 1
    /\ op = "sheet_data_to_df"
    /\ pc = "idle"

(* C10: sheet_data_to_df loads the credentials, opens a connection, opens  *)
(* a second one inside the fetch, issues the request, converts, in that    *)
(* order.  A successful run opens exactly two handles and issues its one   *)
(* request on the second; a failed first open ends the run with the        *)
(* wrapped error before any second open or request.                        *)
C10_ConverterStepOrder ==
    op = "sheet_data_to_df"
    => /\ \/ IsPrefixOf(EventKinds,
                        <<"creds", "open", "open", "request", "convert">>)
          \/ EventKinds = <<"creds", "open_failed">>
          \/ EventKinds = <<"creds", "open", "open_failed">>
       /\ (pc = "idle" /\ outcome.kind = "return")
          => /\ Len(events) = 5
             /\ events[3][2] # events[2][2]
             /\ events[4][2] = events[3][2]
       /\ EventKinds = <<"creds", "open_failed">>
          => /\ pc = "idle"
             /\ outcome.kind = "raise"
             /\ WrappedOnce(outcome.exc)
       /\ pc = "df_build" => Len(events) = 1
       /\ pc = "gsd_build" => Len(events) = 2
       /\ pc = "df_convert" => Len(events) = 4

C10_Witness ==
    /\ op = "sheet_data_to_df"
    /\ pc = "idle"
    /\ outcome.kind = "return"
    /\ Len(outcome.value.rows) = 2
    /\ events = <<<<"creds", 0>>, <<"open", 1>>, <<"open", 2>>,
                  <<"request", 2>>, <<"convert", 0>>>>

====
